---- MODULE Spec2Model ----
(***************************************************************************)
(* OCICycleRepository (services/executor/repository.py): an append-only    *)
(* log of trading activities in the table trading_activities, written by   *)
(* log_activity and read by get_events_by_cycle_id and                     *)
(* get_open_cycles_by_user, each through one connection of a shared        *)
(* oracledb session pool.                                                  *)
(*                                                                         *)
(* Database semantics used by the model (Oracle / python-oracledb):        *)
(*  - a query sees committed rows only (read committed);                   *)
(*  - commit() publishes the rows of the connection's transaction          *)
(*    atomically, or raises and publishes nothing;                         *)
(*  - releasing a connection to the pool rolls back its open transaction;  *)
(*  - pool.acquire() blocks while the pool is exhausted;                   *)
(*  - rows with equal ORDER BY keys come back in an unspecified order, and *)
(*    so do the groups of a GROUP BY;                                      *)
(*  - SYSTIMESTAMP never decreases and has a finite resolution.            *)
(*  - uuid.uuid4() never returns a value it returned before.               *)
(***************************************************************************)
EXTENDS Naturals, Integers, Sequences, FiniteSets, TLC

VARIABLES
    table,      \* committed rows of trading_activities
    txn,        \* txn[p]: rows inserted on p's connection, not yet committed
    clock,      \* SYSTIMESTAMP of the database server
    nextId,     \* source of uuid.uuid4() values
    free,       \* connections available in the pool
    held,       \* held[p]: connections the call of p holds
    pc,         \* pc[p]: position of caller p inside its call
    op,         \* op[p]: the method p is running / ran last
    args,       \* args[p]: its arguments
    result,     \* result[p]: what the call returns or raises (final at pc[p] = "exit")
    pool,       \* size of the pool the repository was constructed with
    cfg,        \* the bounded configuration explored (fixed by Init)
    \* history variables (not program state)
    returned,   \* log_activity calls that returned successfully
    failed,     \* ids generated by log_activity calls that raised
    before,     \* before[p]: value of returned when p's call started
    hb,         \* <<i, j>>: the call writing row i returned before the call writing j started
    obs,        \* obs[p]: ids of the rows the query of p fetched, in fetch order
    seen,       \* seen[p]: number of committed rows when the query of p ran
    lastRead,   \* the last get_events_by_cycle_id call that returned, and its list
    prior,      \* prior[p]: value of lastRead when p's call started
    steps       \* steps[p]: the calls the method of p made on the pool and its connection

vars == <<table, txn, clock, nextId, free, held, pc, op, args, result, pool, cfg,
          returned, failed, before, hb, obs, seen, lastRead, prior, steps>>

----------------------------------------------------------------------------
(* Bounds of the model *)

MaxEvents == 2
MaxClock == 1

Callers == {"a", "b"}

----------------------------------------------------------------------------
(* Identifiers: uuid.UUID values and their RAW(16) form *)

UuidLen == 16

NULL == <<>>

RECURSIVE IntToBytes(_, _)
IntToBytes(n, len) ==
    IF len = 0 THEN <<>>
    ELSE Append(IntToBytes(n \div 256, len - 1), n % 256)

RECURSIVE BytesToInt(_)
BytesToInt(b) ==
    IF b = <<>> THEN 0
    ELSE BytesToInt(SubSeq(b, 1, Len(b) - 1)) * 256 + b[Len(b)]

\* uuid.UUID.bytes: the 128-bit value, big-endian
UuidBytes(u) == IntToBytes(u, UuidLen)

\* uuid.UUID(bytes=b) raises ValueError unless b has 16 bytes
UuidBytesValid(b) == Len(b) = UuidLen

\* a decoding that keeps the last byte only
UuidFromLastByte(b) == b[Len(b)]

\* uuid.UUID(bytes=b): the 128-bit value the 16 bytes spell, big-endian
UuidFromBytes(b) == BytesToInt(b)

UserIds == {1, 256}
CycleIds == {2, 513}

CYCLE_CREATED == "CYCLE_CREATED"
CYCLE_CLOSED == "CYCLE_CLOSED"
ActivityTypes == {CYCLE_CREATED, CYCLE_CLOSED}

\* pool sizes: fewer connections than callers, and one for each caller
PoolSizes == {1, 2}

\* The configurations explored.  One caller, whose calls follow one another,
\* over all activity types and payloads and over the rows of other writers:
\* once with both users on one cycle, once with one user on both cycles.
\* Two callers running concurrently on one user and one cycle, for each
\* pool size.
Configs ==
    { [callers |-> {"a"}, users |-> UserIds, cycles |-> {2},
       types |-> ActivityTypes, kinds |-> {"str", "datetime", "object"},
       legacy |-> TRUE, history |-> FALSE, events |-> MaxEvents, pool |-> 1],
      [callers |-> {"a"}, users |-> {1}, cycles |-> CycleIds,
       types |-> ActivityTypes, kinds |-> {"str", "datetime", "object"},
       legacy |-> TRUE, history |-> FALSE, events |-> MaxEvents, pool |-> 1] }
    \cup
    { [callers |-> Callers, users |-> {1}, cycles |-> {2},
       types |-> {CYCLE_CREATED}, kinds |-> {"str"},
       legacy |-> FALSE, history |-> FALSE, events |-> MaxEvents, pool |-> n]
      : n \in PoolSizes }

\* identifiers that only rows of other writers carry
Legacy == [user |-> 3, cycle |-> 770]
LegacyUser == Legacy.user
LegacyCycle == Legacy.cycle

----------------------------------------------------------------------------
(* Payloads: a pydantic model with one field, and its JSON text *)

\* a field value of the model, as the Python object it is
PyStr(s) == [k |-> "str", v |-> s]
PyInt(s) == [k |-> "int", v |-> s]
PyDatetime(s) == [k |-> "datetime", v |-> s]
PyObject(s) == [k |-> "object", v |-> s]

Doc(f, val) == [field |-> f, val |-> val]

\* the payload models of an activity type
Payloads(t) ==
    IF t = CYCLE_CREATED
    THEN { Doc("strategy_name", PyStr("TestStrat")),
           Doc("strategy_name", PyObject("socket")) }
    ELSE { Doc("closed_at", PyDatetime("2023-01-01T12:00:00Z")) }

\* JSON text as its sequence of tokens; q: the token is a quoted string
Punct(s) == [q |-> FALSE, s |-> s]
Quoted(s) == [q |-> TRUE, s |-> s]

NumberLits == {"0", "1", "100"}

\* model_dump_json() raises PydanticSerializationError for a value it has
\* no serializer for
Serializable(d) == d.val.k \in {"str", "int", "datetime"}

\* model_dump_json(): str and datetime become JSON strings, int a number
ModelDumpJson(d) ==
    << Punct("{"), Quoted(d.field), Punct(":"),
       IF d.val.k = "int" THEN Punct(d.val.v) ELSE Quoted(d.val.v),
       Punct("}") >>

\* json.loads() raises JSONDecodeError on anything but a JSON document
JsonValid(text) ==
    /\ Len(text) = 5
    /\ text[1] = Punct("{")
    /\ text[2].q
    /\ text[3] = Punct(":")
    /\ (text[4].q \/ text[4].s \in NumberLits)
    /\ text[5] = Punct("}")

\* json.loads(): a JSON string becomes str, a JSON number int
JsonLoads(text) ==
    Doc(text[2].s, IF text[4].q THEN PyStr(text[4].s) ELSE PyInt(text[4].s))

----------------------------------------------------------------------------
(* Rows of trading_activities *)

Row(id, u, c, t, data, ts) ==
    [id |-> id, user_id |-> u, cycle_id |-> c, activity_type |-> t,
     activity_data |-> data, created_at |-> ts]

\* Rows written by other writers of the table before the repository is used:
\* the schema lets cycle_id be NULL (the open-cycle query filters on it),
\* activity_data is a CLOB and cycle_id a RAW column, so neither the JSON
\* text nor the length of the raw value is enforced by the database.
LegacyRows ==
    { Row(UuidBytes(1001), UuidBytes(1), NULL, CYCLE_CREATED,
          ModelDumpJson(Doc("strategy_name", PyStr("Legacy"))), 0),
      Row(UuidBytes(1002), UuidBytes(LegacyUser), UuidBytes(LegacyCycle), CYCLE_CREATED,
          << Punct("{"), Quoted("strategy_name") >>, 0),
      Row(UuidBytes(1003), UuidBytes(LegacyUser), <<7>>, CYCLE_CREATED,
          ModelDumpJson(Doc("strategy_name", PyStr("Legacy"))), 0),
      Row(UuidBytes(1004), UuidBytes(LegacyUser), UuidBytes(LegacyCycle), CYCLE_CLOSED,
          ModelDumpJson(Doc("closed_at", PyStr("2023-01-01T12:00:00Z"))), 0) }

LegacyIds == {r.id : r \in LegacyRows}

NoResult == [status |-> "none", err |-> "", value |-> <<>>]
Ok(v) == [status |-> "ok", err |-> "", value |-> v]
Error(e) == [status |-> "error", err |-> e, value |-> <<>>]

\* no earlier read
NoRead == [cycle_id |-> 0, value |-> <<>>, seen |-> 0]

NoArgs == [user_id |-> 0, cycle_id |-> 0, activity_type |-> "", activity_data |-> Doc("", PyStr(""))]

Init ==
    /\ table = LegacyRows
    /\ cfg \in Configs
    /\ pool = cfg.pool
    /\ txn = [p \in Callers |-> {}]
    /\ clock = 0
    /\ nextId = 1
    /\ free = pool
    /\ held = [p \in Callers |-> 0]
    /\ pc = [p \in Callers |-> "idle"]
    /\ op = [p \in Callers |-> "none"]
    /\ args = [p \in Callers |-> NoArgs]
    /\ result = [p \in Callers |-> NoResult]
    /\ returned = {}
    /\ failed = {}
    /\ before = [p \in Callers |-> {}]
    /\ hb = {}
    /\ obs = [p \in Callers |-> <<>>]
    /\ seen = [p \in Callers |-> 0]
    /\ lastRead = NoRead
    /\ prior = [p \in Callers |-> NoRead]
    /\ steps = [p \in Callers |-> <<>>]

----------------------------------------------------------------------------
(* The database as the three statements use it *)

\* a query that also saw the rows of open transactions (READ UNCOMMITTED)
DirtyReadView == table \cup UNION {txn[q] : q \in Callers}

\* what a query reads: the committed rows
ReadView == table

\* a commit that publishes nothing
CommittedNothing(tbl, tx) == tbl

\* a commit that keeps one row per user and cycle (an upsert, not an append)
CommittedUpsert(tbl, tx) ==
    {r \in tbl : \A x \in tx : r.user_id # x.user_id \/ r.cycle_id # x.cycle_id} \cup tx

\* a commit that overwrites what other connections committed
CommittedOverwrites(tbl, tx) == LegacyRows \cup tx

\* connection.commit(): the transaction's rows join the committed rows
Committed(tbl, tx) == tbl \cup tx

\* a release that commits the open transaction instead
RolledBackPublishes(tbl, tx) == tbl \cup tx

\* release of a connection with an open transaction: it is rolled back
RolledBack(tbl, tx) == tbl

\* all arrangements of a finite set as a sequence
Arrangements(S) ==
    { s \in [1..Cardinality(S) -> S] : \A i, j \in 1..Cardinality(S) : s[i] = s[j] => i = j }

\* a query that also filtered on the first user
SelectByCycleOfUser(rows, cid) ==
    { r \in rows : r.cycle_id # NULL /\ r.cycle_id = cid /\ r.user_id = UuidBytes(1) }

\* WHERE cycle_id = :cycle_id
SelectByCycle(rows, cid) == { r \in rows : r.cycle_id # NULL /\ r.cycle_id = cid }

\* the query without its ORDER BY
OrderByNothing(rows) == Arrangements(rows)

\* ORDER BY created_at ASC: every order of the rows the sort key allows
OrderByCreatedAt(rows) ==
    { s \in Arrangements(rows) :
        \A i, j \in 1..Len(s) : i < j => s[i].created_at <= s[j].created_at }

\* SUM(CASE WHEN activity_type = 'CYCLE_CLOSED' THEN 1 ELSE 0 END)
RECURSIVE SumClosed(_)
SumClosed(rows) ==
    IF rows = {} THEN 0
    ELSE LET r == CHOOSE x \in rows : TRUE
         IN (IF r.activity_type = CYCLE_CLOSED THEN 1 ELSE 0) + SumClosed(rows \ {r})

\* WHERE user_id = :user_id AND cycle_id IS NOT NULL
SelectByUser(rows, uid) == { r \in rows : r.user_id = uid /\ r.cycle_id # NULL }

\* the query without its HAVING clause
OpenCycleGroupsNoHaving(rows, uid) == {r.cycle_id : r \in SelectByUser(rows, uid)}

\* SELECT cycle_id ... GROUP BY cycle_id HAVING SUM(...) = 0
OpenCycleGroups(rows, uid) ==
    LET sel == SelectByUser(rows, uid)
    IN { c \in {r.cycle_id : r \in sel} :
            SumClosed({r \in sel : r.cycle_id = c}) = 0 }

----------------------------------------------------------------------------
(* Calls *)

StartCall(p, o, a) ==
    /\ pc[p] = "idle"
    /\ p \in cfg.callers
    /\ pc' = [pc EXCEPT ![p] = "acquire"]
    /\ op' = [op EXCEPT ![p] = o]
    /\ args' = [args EXCEPT ![p] = a]
    /\ result' = [result EXCEPT ![p] = NoResult]
    /\ before' = [before EXCEPT ![p] = returned]
    /\ obs' = [obs EXCEPT ![p] = <<>>]
    /\ prior' = [prior EXCEPT ![p] =
                    IF o = "get_events_by_cycle_id" THEN lastRead ELSE NoRead]
    /\ UNCHANGED <<table, txn, clock, nextId, free, held, pool, cfg, returned, failed, hb,
                   seen, lastRead, steps>>

\* log_activity calls that have not yet drawn their uuid4
Starting == {q \in Callers : op[q] = "log_activity" /\ pc[q] \in {"acquire", "execute"}}

LogActivityCall(p) ==
    /\ nextId + Cardinality(Starting) <= cfg.events
    /\ \E u \in cfg.users, c \in cfg.cycles, t \in cfg.types :
        \E d \in {x \in Payloads(t) : x.val.k \in cfg.kinds} :
        StartCall(p, "log_activity",
                  [user_id |-> u, cycle_id |-> c, activity_type |-> t, activity_data |-> d])

GetEventsCall(p) ==
    \E c \in cfg.cycles \cup (IF cfg.legacy THEN {LegacyCycle} ELSE {}) :
        StartCall(p, "get_events_by_cycle_id", [NoArgs EXCEPT !.cycle_id = c])

GetOpenCyclesCall(p) ==
    \E u \in cfg.users \cup (IF cfg.legacy THEN {LegacyUser} ELSE {}) :
        StartCall(p, "get_open_cycles_by_user", [NoArgs EXCEPT !.user_id = u])

\* with self.pool.acquire() as connection: blocks while the pool is empty
Acquire(p) ==
    /\ pc[p] = "acquire"
    /\ free > 0
    /\ free' = free - 1
    /\ held' = [held EXCEPT ![p] = held[p] + 1]
    /\ pc' = [pc EXCEPT ![p] = "execute"]
    /\ steps' = [steps EXCEPT ![p] = Append(@, "acquire")]
    /\ UNCHANGED <<table, txn, clock, nextId, op, args, result, pool, cfg,
                   returned, failed, before, hb, obs, seen, lastRead, prior>>

\* pool.acquire() raises: the call ends without a connection
AcquireFail(p) ==
    /\ pc[p] = "acquire"
    /\ pc' = [pc EXCEPT ![p] = "exit"]
    /\ result' = [result EXCEPT ![p] = Error("acquire")]
    /\ UNCHANGED <<table, txn, clock, nextId, free, held, op, args, pool, cfg,
                   returned, failed, before, hb, obs, seen, lastRead, prior, steps>>

\* a method that returns after the INSERT
AfterInsertReturn == "exit"

\* after cursor.execute(sql, params) comes connection.commit()
AfterInsert == "commit"

\* a generator that hands out its first value again and again
Uuid4Repeats(n) == IF n > 1 THEN 1 ELSE n

\* uuid.uuid4(): the n-th value drawn is one no earlier draw produced
Uuid4(n) == n

\* log_activity: the parameters and cursor.execute(INSERT)
LogActivityExecute(p) ==
    /\ pc[p] = "execute"
    /\ op[p] = "log_activity"
    /\ nextId' = nextId + 1
    /\ obs' = [obs EXCEPT ![p] = <<UuidBytes(Uuid4(nextId))>>]
    /\ \/ /\ ~Serializable(args[p].activity_data)
          /\ result' = [result EXCEPT ![p] = Error("serialization")]
          /\ pc' = [pc EXCEPT ![p] = "exit"]
          /\ UNCHANGED <<txn, hb, steps>>
       \/ /\ Serializable(args[p].activity_data)
          /\ result' = [result EXCEPT ![p] = Error("insert")]
          /\ pc' = [pc EXCEPT ![p] = "exit"]
          /\ steps' = [steps EXCEPT ![p] = Append(@, "INSERT")]
          /\ UNCHANGED <<txn, hb>>
       \/ /\ Serializable(args[p].activity_data)
          /\ txn' = [txn EXCEPT ![p] = txn[p] \cup
                       { Row(UuidBytes(Uuid4(nextId)),
                             UuidBytes(args[p].user_id),
                             UuidBytes(args[p].cycle_id),
                             args[p].activity_type,
                             ModelDumpJson(args[p].activity_data),
                             clock) }]
          /\ hb' = hb \cup { <<e.id, UuidBytes(Uuid4(nextId))>> : e \in before[p] }
          /\ pc' = [pc EXCEPT ![p] = AfterInsert]
          /\ steps' = [steps EXCEPT ![p] = Append(@, "INSERT")]
          /\ UNCHANGED result
    /\ before' = [before EXCEPT ![p] = {}]
    /\ UNCHANGED <<table, clock, free, held, op, args, pool, cfg, returned, failed,
                   seen, lastRead, prior>>

\* log_activity: connection.commit()
LogActivityCommit(p) ==
    /\ pc[p] = "commit"
    /\ \/ /\ table' = Committed(table, txn[p])
          /\ txn' = [txn EXCEPT ![p] = {}]
          /\ result' = [result EXCEPT ![p] = Ok(<<>>)]
       \/ /\ result' = [result EXCEPT ![p] = Error("commit")]
          /\ UNCHANGED <<table, txn>>
    /\ pc' = [pc EXCEPT ![p] = "exit"]
    /\ steps' = [steps EXCEPT ![p] = Append(@, "commit")]
    /\ UNCHANGED <<clock, nextId, free, held, op, args, pool, cfg,
                   returned, failed, before, hb, obs, seen, lastRead, prior>>

\* a comprehension that leaves out the rows whose payload does not parse
FetchedParsable(rows) == SelectSeq(rows, LAMBDA r : JsonValid(r.activity_data))

\* for row in rows: the comprehension visits every fetched row, in order
Fetched(rows) == rows

\* get_events_by_cycle_id: cursor.execute, fetchall, and the list built from it
GetEventsExecute(p) ==
    /\ pc[p] = "execute"
    /\ op[p] = "get_events_by_cycle_id"
    /\ \E rows \in { Fetched(s) : s \in OrderByCreatedAt(
                           SelectByCycle(ReadView, UuidBytes(args[p].cycle_id))) } :
          \/ /\ result' = [result EXCEPT ![p] = Error("execute")]
             /\ before' = [before EXCEPT ![p] = {}]
             /\ prior' = [prior EXCEPT ![p] = NoRead]
             /\ UNCHANGED <<obs, seen>>
          \/ /\ \E i \in 1..Len(rows) : ~JsonValid(rows[i].activity_data)
             /\ result' = [result EXCEPT ![p] = Error("json")]
             /\ before' = [before EXCEPT ![p] = {}]
             /\ prior' = [prior EXCEPT ![p] = NoRead]
             /\ UNCHANGED <<obs, seen>>
          \/ /\ \A i \in 1..Len(rows) : JsonValid(rows[i].activity_data)
             /\ UNCHANGED <<before, prior>>
             /\ obs' = [obs EXCEPT ![p] = [i \in 1..Len(rows) |-> rows[i].id]]
             /\ seen' = [seen EXCEPT ![p] = Cardinality(table)]
             /\ result' = [result EXCEPT ![p] = Ok(
                      [i \in 1..Len(rows) |->
                          [activity_type |-> rows[i].activity_type,
                           activity_data |-> JsonLoads(rows[i].activity_data),
                           created_at |-> rows[i].created_at]])]
    /\ pc' = [pc EXCEPT ![p] = "exit"]
    /\ steps' = [steps EXCEPT ![p] = Append(@, "SELECT")]
    /\ UNCHANGED <<table, txn, clock, nextId, free, held, op, args, pool, cfg,
                   returned, failed, hb, lastRead>>

\* get_open_cycles_by_user: cursor.execute, fetchall, and the UUIDs built from it
GetOpenCyclesExecute(p) ==
    /\ pc[p] = "execute"
    /\ op[p] = "get_open_cycles_by_user"
    /\ \E rows \in Arrangements(OpenCycleGroups(ReadView, UuidBytes(args[p].user_id))) :
          \/ /\ result' = [result EXCEPT ![p] = Error("execute")]
             /\ before' = [before EXCEPT ![p] = {}]
             /\ UNCHANGED <<obs, seen>>
          \/ /\ \E i \in 1..Len(rows) : ~UuidBytesValid(rows[i])
             /\ result' = [result EXCEPT ![p] = Error("idbytes")]
             /\ before' = [before EXCEPT ![p] = {}]
             /\ UNCHANGED <<obs, seen>>
          \/ /\ \A i \in 1..Len(rows) : UuidBytesValid(rows[i])
             /\ UNCHANGED before
             /\ obs' = [obs EXCEPT ![p] = rows]
             /\ seen' = [seen EXCEPT ![p] = Cardinality(table)]
             /\ result' = [result EXCEPT ![p] = Ok(
                      [i \in 1..Len(rows) |-> UuidFromBytes(rows[i])])]
    /\ pc' = [pc EXCEPT ![p] = "exit"]
    /\ steps' = [steps EXCEPT ![p] = Append(@, "SELECT")]
    /\ UNCHANGED <<table, txn, clock, nextId, free, held, op, args, pool, cfg,
                   returned, failed, hb, lastRead, prior>>

\* a release that is skipped when the body raised
FreeAfterReleaseOnSuccess(p) ==
    IF result[p].status = "error" THEN free ELSE free + held[p]

\* a release that never gives the connection back
FreeAfterReleaseLeaks(p) == free

\* the pool after the connection of p went back to it
FreeAfterRelease(p) == free + held[p]

\* leaving the with blocks: the connection goes back to the pool, on return
\* and on exception alike, and the call ends
Release(p) ==
    /\ pc[p] = "exit"
    /\ table' = RolledBack(table, txn[p])
    /\ txn' = [txn EXCEPT ![p] = {}]
    /\ free' = FreeAfterRelease(p)
    /\ held' = [held EXCEPT ![p] = 0]
    /\ pc' = [pc EXCEPT ![p] = "idle"]
    /\ returned' = IF op[p] = "log_activity" /\ result[p].status = "ok"
                   THEN returned \cup { [id |-> obs[p][1],
                                         user_id |-> args[p].user_id,
                                         cycle_id |-> args[p].cycle_id,
                                         activity_type |-> args[p].activity_type,
                                         activity_data |-> args[p].activity_data] }
                   ELSE returned
    /\ failed' = IF op[p] = "log_activity" /\ result[p].status = "error" /\ obs[p] # <<>>
                 THEN failed \cup {obs[p][1]}
                 ELSE failed
    /\ op' = [op EXCEPT ![p] = "none"]
    /\ args' = [args EXCEPT ![p] = NoArgs]
    /\ result' = [result EXCEPT ![p] = NoResult]
    /\ before' = [before EXCEPT ![p] = {}]
    /\ obs' = [obs EXCEPT ![p] = <<>>]
    /\ seen' = [seen EXCEPT ![p] = 0]
    /\ lastRead' = IF cfg.history /\ op[p] = "get_events_by_cycle_id" /\ result[p].status = "ok"
                   THEN [cycle_id |-> args[p].cycle_id, value |-> result[p].value,
                         seen |-> seen[p]]
                   ELSE lastRead
    /\ prior' = [prior EXCEPT ![p] = NoRead]
    /\ steps' = [steps EXCEPT ![p] = <<>>]
    /\ UNCHANGED <<clock, nextId, pool, cfg, hb>>

\* SYSTIMESTAMP advances
Tick ==
    /\ clock < MaxClock
    /\ clock' = clock + 1
    /\ UNCHANGED <<table, txn, nextId, free, held, pc, op, args, result, pool, cfg,
                   returned, failed, before, hb, obs, seen, lastRead, prior, steps>>

Next ==
    \/ \E p \in Callers : LogActivityCall(p)
    \/ \E p \in Callers : GetEventsCall(p)
    \/ \E p \in Callers : GetOpenCyclesCall(p)
    \/ \E p \in Callers : Acquire(p)
    \/ \E p \in Callers : AcquireFail(p)
    \/ \E p \in Callers : LogActivityExecute(p)
    \/ \E p \in Callers : LogActivityCommit(p)
    \/ \E p \in Callers : GetEventsExecute(p)
    \/ \E p \in Callers : GetOpenCyclesExecute(p)
    \/ \E p \in Callers : Release(p)
    \/ Tick

Spec == Init /\ [][Next]_vars

\* the state after construction, in the configuration cfg
Constructed ==
    /\ table = LegacyRows
    /\ pool = cfg.pool
    /\ txn = [p \in Callers |-> {}]
    /\ clock = 0
    /\ nextId = 1
    /\ free = pool
    /\ held = [p \in Callers |-> 0]
    /\ pc = [p \in Callers |-> "idle"]
    /\ op = [p \in Callers |-> "none"]
    /\ args = [p \in Callers |-> NoArgs]
    /\ result = [p \in Callers |-> NoResult]
    /\ returned = {}
    /\ failed = {}
    /\ before = [p \in Callers |-> {}]
    /\ hb = {}
    /\ obs = [p \in Callers |-> <<>>]
    /\ seen = [p \in Callers |-> 0]
    /\ lastRead = NoRead
    /\ prior = [p \in Callers |-> NoRead]
    /\ steps = [p \in Callers |-> <<>>]

\* Configurations that keep the list of the last read: one caller appending
\* events of both types to one cycle and reading it again and again, and two
\* callers appending to and reading one cycle concurrently.
RereadConfigs ==
    { [callers |-> {"a"}, users |-> {1}, cycles |-> {2},
       types |-> ActivityTypes, kinds |-> {"str", "datetime"},
       legacy |-> FALSE, history |-> TRUE, events |-> MaxEvents, pool |-> 1],
      [callers |-> Callers, users |-> {1}, cycles |-> {2},
       types |-> {CYCLE_CREATED}, kinds |-> {"str"},
       legacy |-> FALSE, history |-> TRUE, events |-> MaxEvents, pool |-> 2] }

InitRereads == cfg \in RereadConfigs /\ Constructed

SpecRereads == InitRereads /\ [][Next]_vars

\* Two callers appending events of both types to two cycles concurrently,
\* with as many appends as there are cycles: one more append would go to a
\* cycle already written.
CycleConfigs ==
    { [callers |-> Callers, users |-> {1}, cycles |-> CycleIds,
       types |-> ActivityTypes, kinds |-> {"str", "datetime"},
       legacy |-> FALSE, history |-> FALSE, events |-> Cardinality(CycleIds),
       pool |-> 2] }

InitCycles == cfg \in CycleConfigs /\ Constructed

SpecCycles == InitCycles /\ [][Next]_vars

\* Two callers of the three methods on one cycle, over a pool with fewer
\* connections than callers and over one with a connection for each.  One
\* append and any number of reads: every log_activity call takes the same
\* path through the pool.
PoolConfigs ==
    { [callers |-> Callers, users |-> {1}, cycles |-> {2},
       types |-> {CYCLE_CREATED}, kinds |-> {"str"},
       legacy |-> FALSE, history |-> FALSE, events |-> 1, pool |-> n]
      : n \in PoolSizes }

InitPool == cfg \in PoolConfigs /\ Constructed

\* a step of the call of p that holds its connection: a database call, or
\* the exit from the with blocks
Proceeds(p) ==
    \/ LogActivityExecute(p)
    \/ LogActivityCommit(p)
    \/ GetEventsExecute(p)
    \/ GetOpenCyclesExecute(p)
    \/ Release(p)

\* Scheduling: the pool serves every waiting caller in the end (a caller
\* that finds a connection free again and again gets one), and every
\* database call and every exit from the with blocks terminates.
Fairness ==
    \A p \in Callers : SF_vars(Acquire(p)) /\ WF_vars(Proceeds(p))

FairSpec == InitPool /\ [][Next]_vars /\ Fairness

----------------------------------------------------------------------------
(* Vocabulary of the properties *)

Range(s) == {s[i] : i \in 1..Len(s)}

RowIds(rows) == {r.id : r \in rows}

AllCycleIds == CycleIds \cup {LegacyCycle}

\* the call of p is about to return v = result[p].value from method o
Returns(p, o) == pc[p] = "exit" /\ op[p] = o /\ result[p].status = "ok"

\* this step is the query of method o by p, and it succeeds
QueryReturns(p, o) ==
    pc[p] = "execute" /\ op[p] = o /\ pc'[p] = "exit" /\ result'[p].status = "ok"

\* a payload made of JSON-native values only
JsonNative(d) == d.val.k \in {"str", "int"}

HasEvent(tbl, u, c) ==
    LET ub == UuidBytes(u)
        cb == UuidBytes(c)
    IN  \E r \in tbl : r.user_id = ub /\ r.cycle_id = cb

ClosedBy(tbl, u, c) ==
    LET ub == UuidBytes(u)
        cb == UuidBytes(c)
    IN  \E r \in tbl : /\ r.user_id = ub
                       /\ r.cycle_id = cb
                       /\ r.activity_type = CYCLE_CLOSED

ClosedByAnyone(tbl, c) ==
    LET cb == UuidBytes(c)
    IN  \E r \in tbl : r.cycle_id = cb /\ r.activity_type = CYCLE_CLOSED

----------------------------------------------------------------------------
(* C1 *)

\* C1 as stated: once log_activity(u, c, t, d) has returned, every
\* get_events_by_cycle_id(c) that starts afterwards returns a list holding an
\* event with activity_type = t and activity_data equal to d, for every d.
C1_AppendVisibleAnyPayload ==
    \A p \in Callers :
        Returns(p, "get_events_by_cycle_id") =>
            \A e \in before[p] :
                e.cycle_id = args[p].cycle_id =>
                    \E i \in 1..Len(result[p].value) :
                        /\ result[p].value[i].activity_type = e.activity_type
                        /\ result[p].value[i].activity_data = e.activity_data

\* C1 amended: the same for every payload d made of JSON-native values; for
\* any other serializable payload the list holds an event with
\* activity_type = t whose activity_data is the parsed JSON text of d.
C1_AppendVisible ==
    \A p \in Callers :
        Returns(p, "get_events_by_cycle_id") =>
            \A e \in before[p] :
                e.cycle_id = args[p].cycle_id =>
                    \E i \in 1..Len(result[p].value) :
                        /\ obs[p][i] = e.id
                        /\ result[p].value[i].activity_type = e.activity_type
                        /\ result[p].value[i].activity_data =
                              JsonLoads(ModelDumpJson(e.activity_data))
                        /\ JsonNative(e.activity_data) =>
                              result[p].value[i].activity_data = e.activity_data

C1_Witness ==
    \E p \in Callers :
        /\ Returns(p, "get_events_by_cycle_id")
        /\ \E e \in before[p] :
              e.cycle_id = args[p].cycle_id /\ JsonNative(e.activity_data)

----------------------------------------------------------------------------
(* C2 *)

\* the open cycles of user u in the committed log tbl, as C2 defines them
OpenCyclesOf(tbl, u) ==
    { c \in AllCycleIds : HasEvent(tbl, u, c) /\ ~ClosedBy(tbl, u, c) }

\* C2: get_open_cycles_by_user(u) returns exactly the non-null cycle ids c
\* for which the committed log holds an event of u and c and no CYCLE_CLOSED
\* event of u and c, each once.
C2_OpenCycleDetection ==
    [][ \A p \in Callers :
          QueryReturns(p, "get_open_cycles_by_user") =>
             /\ Range(result'[p].value) = OpenCyclesOf(table, args[p].user_id)
             /\ Len(result'[p].value) = Cardinality(OpenCyclesOf(table, args[p].user_id))
      ]_vars

C2_Witness ==
    \E p \in Callers :
        /\ Returns(p, "get_open_cycles_by_user")
        /\ result[p].value # <<>>
        /\ \E c \in CycleIds : ClosedBy(table, args[p].user_id, c)
        /\ \E r \in table : r.user_id = UuidBytes(args[p].user_id) /\ r.cycle_id = NULL

----------------------------------------------------------------------------
(* C3 *)

\* C3: for a cycle c in which u has an event, the result of
\* get_open_cycles_by_user(u) contains c iff no event of cycle c, of any
\* user, is a CYCLE_CLOSED event.
C3_OpenIffNoCloseByAnyone ==
    [][ \A p \in Callers :
          QueryReturns(p, "get_open_cycles_by_user") =>
             \A c \in AllCycleIds :
                HasEvent(table, args[p].user_id, c) =>
                   (c \in Range(result'[p].value) <=> ~ClosedByAnyone(table, c))
      ]_vars

----------------------------------------------------------------------------
(* C4 *)

\* C4: once a CYCLE_CLOSED event of cycle c is committed, no later
\* get_open_cycles_by_user call, of any user, returns c.
C4_ClosedPermanentAnyUser ==
    \A p \in Callers :
        Returns(p, "get_open_cycles_by_user") =>
            \A e \in before[p] :
                e.activity_type = CYCLE_CLOSED => e.cycle_id \notin Range(result[p].value)

----------------------------------------------------------------------------
(* C5 *)

\* C5: get_events_by_cycle_id returns the events in non-decreasing
\* created_at order, so events appended one after another with strictly
\* increasing timestamps come back in their append order.
C5_ReplayOrdering ==
    \A p \in Callers :
        Returns(p, "get_events_by_cycle_id") =>
            \A i, j \in 1..Len(result[p].value) :
                /\ i < j => result[p].value[i].created_at <= result[p].value[j].created_at
                /\ ( /\ <<obs[p][i], obs[p][j]>> \in hb
                     /\ result[p].value[i].created_at < result[p].value[j].created_at )
                   => i < j

C5_Witness ==
    \E p \in Callers :
        /\ Returns(p, "get_events_by_cycle_id")
        /\ \E i, j \in 1..Len(result[p].value) :
              /\ <<obs[p][i], obs[p][j]>> \in hb
              /\ result[p].value[i].created_at < result[p].value[j].created_at

----------------------------------------------------------------------------
(* C6 *)

\* C6: if log_activity for e1 returned before log_activity for e2 on the
\* same cycle was called, every get_events_by_cycle_id result holding both
\* lists e1 before e2, also when both have the same created_at.
C6_TiesKeepCausalOrder ==
    \A p \in Callers :
        Returns(p, "get_events_by_cycle_id") =>
            \A i, j \in 1..Len(result[p].value) :
                <<obs[p][i], obs[p][j]>> \in hb => i < j

----------------------------------------------------------------------------
(* C7 *)

\* C7: a log_activity call that fails at any step leaves no row of its own
\* in the committed log, and no later get_events_by_cycle_id fetches one.
C7_AppendAllOrNothing ==
    /\ \A p \in Callers :
          (pc[p] = "exit" /\ op[p] = "log_activity" /\ result[p].status = "error"
              /\ obs[p] # <<>>)
             => obs[p][1] \notin RowIds(table)
    /\ \A id \in failed :
          /\ id \notin RowIds(table)
          /\ \A q \in Callers :
                (op[q] = "get_events_by_cycle_id" /\ pc[q] = "exit")
                   => id \notin Range(obs[q])

C7_Witness ==
    \E p, q \in Callers :
        /\ pc[p] = "exit" /\ op[p] = "log_activity"
        /\ result[p].err = "commit"
        /\ txn[p] # {}
        /\ Returns(q, "get_events_by_cycle_id")
        /\ args[q].cycle_id = args[p].cycle_id
        /\ result[q].value # <<>>

----------------------------------------------------------------------------
(* C8 *)

\* C8 as stated: no read result reflects an event whose log_activity call
\* has not yet returned successfully to its caller.
C8_VisibleOnlyAfterReturn ==
    \A p \in Callers :
        (pc[p] = "exit" /\ op[p] = "get_events_by_cycle_id") =>
            Range(obs[p]) \subseteq LegacyIds \cup {e.id : e \in returned}

\* C8 amended: no read result reflects an event whose commit has not been
\* executed: an inserted but uncommitted row is never observed, while a
\* committed row can be observed before its log_activity call has returned.
C8_VisibleOnlyAfterCommit ==
    /\ \A p \in Callers :
          (pc[p] = "exit" /\ op[p] = "get_events_by_cycle_id") =>
             /\ Range(obs[p]) \subseteq RowIds(table)
             /\ \A q \in Callers : Range(obs[p]) \cap RowIds(txn[q]) = {}
    /\ \A p \in Callers :
          Returns(p, "get_open_cycles_by_user") =>
             \A c \in Range(result[p].value) : HasEvent(table, args[p].user_id, c)

C8_Witness ==
    \E p, q \in Callers :
        /\ pc[p] = "exit" /\ op[p] = "get_events_by_cycle_id"
        /\ pc[q] = "exit" /\ op[q] = "log_activity" /\ result[q].status = "ok"
        /\ obs[q][1] \in Range(obs[p])

----------------------------------------------------------------------------
(* C9 *)

InFlight == {p \in Callers : pc[p] # "idle"}

RECURSIVE SumHeld(_)
SumHeld(S) ==
    IF S = {} THEN 0
    ELSE LET p == CHOOSE x \in S : TRUE IN held[p] + SumHeld(S \ {p})

\* C9: every call holds at most one connection, none before it acquired one
\* and none once it has ended, on the success path and on every error path;
\* the connections in use never exceed the calls in flight and are zero when
\* no call is in flight.
C9_ScopedConnection ==
    /\ free + SumHeld(Callers) = pool
    /\ \A p \in Callers :
          /\ held[p] \in {0, 1}
          /\ pc[p] \in {"idle", "acquire"} => held[p] = 0
          /\ (pc[p] \in {"execute", "commit"}) => held[p] = 1
    /\ pool - free <= Cardinality(InFlight)
    /\ InFlight = {} => free = pool

C9_Witness ==
    /\ InFlight = {}
    /\ free = pool
    /\ failed # {}
    /\ returned # {}

----------------------------------------------------------------------------
(* C10 *)

\* C10: every committed row stays in the log unchanged; the two read
\* methods leave the log as it is, and a step of log_activity changes the
\* log only by adding the one row of that call.
C10_AppendOnly ==
    [][ /\ table \subseteq table'
        /\ \A p \in Callers :
              (op[p] # "log_activity" /\ pc'[p] # pc[p]) => table' = table
        /\ table' # table =>
              \E p \in Callers :
                 /\ op[p] = "log_activity" /\ pc[p] = "commit"
                 /\ table' \ table =
                       { Row(obs[p][1], UuidBytes(args[p].user_id),
                             UuidBytes(args[p].cycle_id), args[p].activity_type,
                             ModelDumpJson(args[p].activity_data), r.created_at)
                         : r \in txn[p] }
                 /\ Cardinality(table' \ table) = 1
      ]_vars

C10_Witness ==
    /\ Cardinality(table) = Cardinality(LegacyRows) + 2
    /\ \E p \in Callers : pc[p] = "exit" /\ op[p] # "log_activity"

----------------------------------------------------------------------------
(* C11 *)

AllRows == table \cup UNION {txn[q] : q \in Callers}

\* the successful appends to the cycle p reads that returned before p started
AppendedBefore(p) == {e \in before[p] : e.cycle_id = args[p].cycle_id}

\* C11: ids are unique across the log: the row a log_activity call inserts
\* carries an id no other row has, every call that returned has a row of its
\* own in the log, and get_events_by_cycle_id lists one event for each
\* successful call on the cycle, calls with identical arguments included.
C11_FreshIdNoDedup ==
    /\ \A r, s \in AllRows : r.id = s.id => r = s
    /\ \A p \in Callers :
          pc[p] = "commit" =>
             /\ Cardinality(txn[p]) = 1
             /\ obs[p][1] \notin RowIds(table)
             /\ \A q \in Callers \ {p} : obs[p][1] \notin RowIds(txn[q])
    /\ \A e, f \in returned :
          /\ e.id \in RowIds(table)
          /\ e.id = f.id => e = f
    /\ \A p \in Callers :
          Returns(p, "get_events_by_cycle_id") =>
             Cardinality({i \in 1..Len(obs[p]) : obs[p][i] \in RowIds(AppendedBefore(p))})
                = Cardinality(AppendedBefore(p))

C11_Witness ==
    \E p \in Callers :
        /\ Returns(p, "get_events_by_cycle_id")
        /\ Len(result[p].value) >= 2
        /\ \E e, f \in AppendedBefore(p) :
              /\ e.id # f.id
              /\ [e EXCEPT !.id = f.id] = f

----------------------------------------------------------------------------
(* C12 *)

\* p is about to return from a read of the cycle the last returned read was of
ReadsAgain(p) ==
    /\ Returns(p, "get_events_by_cycle_id")
    /\ prior[p] # NoRead
    /\ prior[p].cycle_id = args[p].cycle_id

\* C12: two calls of get_events_by_cycle_id(c) with no commit between them
\* return identical lists, also when events of c share their created_at.
C12_IdempotentRead ==
    \A p \in Callers :
        (ReadsAgain(p) /\ prior[p].seen = seen[p]) =>
            result[p].value = prior[p].value

----------------------------------------------------------------------------
(* C13 *)

\* the committed events of cycle c, of every user
EventsOfCycle(tbl, c) ==
    LET cb == UuidBytes(c)
    IN  {r \in tbl : r.cycle_id = cb}

\* this step is the query of get_events_by_cycle_id by p
ReadsEvents(p) ==
    pc[p] = "execute" /\ op[p] = "get_events_by_cycle_id" /\ pc'[p] = "exit"

\* C13: a get_events_by_cycle_id(c) that returns has one entry for every
\* committed event of cycle c, of whichever user, and none for any other
\* event, each entry carrying the type, parsed payload and timestamp of its
\* event; for a cycle without events the call returns the empty list, and
\* fails only if the database does.
C13_ExactMembership ==
    [][ \A p \in Callers :
          ReadsEvents(p) =>
             LET evs == EventsOfCycle(table, args[p].cycle_id)
                 res == result'[p]
             IN  /\ res.status = "ok" =>
                       /\ Len(res.value) = Cardinality(evs)
                       /\ Range(obs'[p]) = RowIds(evs)
                       /\ \A i \in 1..Len(res.value) :
                             \E r \in evs :
                                /\ r.id = obs'[p][i]
                                /\ res.value[i].activity_type = r.activity_type
                                /\ res.value[i].activity_data = JsonLoads(r.activity_data)
                                /\ res.value[i].created_at = r.created_at
                 /\ evs = {} => (res = Ok(<<>>) \/ res = Error("execute"))
      ]_vars

C13_Witness ==
    \E p \in Callers :
        /\ Returns(p, "get_events_by_cycle_id")
        /\ Len(result[p].value) = 2
        /\ \E r, t \in table :
              /\ r.id = obs[p][1] /\ t.id = obs[p][2]
              /\ r.user_id # t.user_id

----------------------------------------------------------------------------
(* C14 *)

\* C14: if a committed event of cycle c has an activity_data that is not
\* valid JSON, get_events_by_cycle_id(c) ends in an error and returns no
\* list, neither the other events of c nor a list without that event, and
\* the log is left unchanged.
C14_CorruptPayloadRaises ==
    [][ \A p \in Callers :
          ( /\ ReadsEvents(p)
            /\ \E r \in EventsOfCycle(table, args[p].cycle_id) :
                  ~JsonValid(r.activity_data) )
          => /\ result'[p].status = "error"
             /\ result'[p].value = <<>>
             /\ obs'[p] = <<>>
             /\ table' = table
      ]_vars

C14_Witness ==
    \E p \in Callers :
        /\ pc[p] = "exit" /\ op[p] = "get_events_by_cycle_id"
        /\ result[p] = Error("json")
        /\ \E r, t \in EventsOfCycle(table, args[p].cycle_id) :
              ~JsonValid(r.activity_data) /\ JsonValid(t.activity_data)

----------------------------------------------------------------------------
(* C15 *)

\* every log_activity call made so far has returned, the calls went to
\* pairwise different cycles, and the call of p started after the last return
AfterDisjointAppends(p) ==
    /\ \A q \in Callers : op[q] # "log_activity"
    /\ \A e, f \in returned : e.cycle_id = f.cycle_id => e = f
    /\ before[p] = returned

\* C15: after log_activity calls on pairwise different cycles have all
\* returned, in whatever way they were interleaved, get_events_by_cycle_id(c)
\* returns what the append to c gives when it runs alone, the one event of
\* that call or nothing, and get_open_cycles_by_user(u) returns the cycles
\* that the set of calls determines, as after any serial execution of them.
C15_DisjointCyclesIndependent ==
    \A p \in Callers :
        /\ (Returns(p, "get_events_by_cycle_id") /\ AfterDisjointAppends(p)) =>
              LET mine == {e \in returned : e.cycle_id = args[p].cycle_id}
              IN  /\ Len(result[p].value) = Cardinality(mine)
                  /\ \A e \in mine :
                        /\ obs[p] = <<e.id>>
                        /\ result[p].value[1].activity_type = e.activity_type
                        /\ result[p].value[1].activity_data =
                              JsonLoads(ModelDumpJson(e.activity_data))
        /\ (Returns(p, "get_open_cycles_by_user") /\ AfterDisjointAppends(p)) =>
              LET open == { e.cycle_id : e \in { f \in returned :
                                /\ f.user_id = args[p].user_id
                                /\ f.activity_type # CYCLE_CLOSED } }
              IN  /\ Range(result[p].value) = open
                  /\ Len(result[p].value) = Cardinality(open)

\* two appends to different cycles overlapped in time, both returned, and a
\* read of one of the cycles follows
C15_Witness ==
    \E p \in Callers :
        /\ Returns(p, "get_events_by_cycle_id")
        /\ AfterDisjointAppends(p)
        /\ \E e, f \in returned :
              /\ e.cycle_id = args[p].cycle_id
              /\ f.cycle_id # e.cycle_id
              /\ <<e.id, f.id>> \notin hb
              /\ <<f.id, e.id>> \notin hb

----------------------------------------------------------------------------
(* C16 *)

\* identifiers on both sides of the byte boundaries
SampleIds == UserIds \cup CycleIds \cup {0, 255, 257, 770, 65535, 65536}

\* decoding the 16 bytes of an identifier gives the identifier again
RoundTrips ==
    \A c \in SampleIds :
        /\ Len(UuidBytes(c)) = UuidLen
        /\ UuidFromBytes(UuidBytes(c)) = c

\* C16: the cycle id c given to log_activity is stored as its 16 raw bytes,
\* decoding the raw value gives c again for every c, and
\* get_open_cycles_by_user returns one identifier per fetched row, in row
\* order, each equal to the identifier the row's events were written with.
C16_IdentifierRoundTrip ==
    /\ RoundTrips
    /\ \A e \in returned :
          LET cb == UuidBytes(e.cycle_id)
          IN  /\ Len(cb) = UuidLen
              /\ \E r \in table : r.id = e.id /\ r.cycle_id = cb
    /\ \A p \in Callers :
          Returns(p, "get_open_cycles_by_user") =>
             /\ Len(result[p].value) = Len(obs[p])
             /\ \A i \in 1..Len(obs[p]) :
                   /\ UuidBytes(result[p].value[i]) = obs[p][i]
                   /\ \A e \in returned :
                         (\E r \in table : r.id = e.id /\ r.cycle_id = obs[p][i])
                            => result[p].value[i] = e.cycle_id

C16_Witness ==
    \E p \in Callers :
        /\ Returns(p, "get_open_cycles_by_user")
        /\ \E i \in 1..Len(obs[p]) : \E e \in returned :
              /\ e.cycle_id > 255
              /\ \E r \in table : r.id = e.id /\ r.cycle_id = obs[p][i]

----------------------------------------------------------------------------
(* C17 *)

IsPrefix(s, t) == Len(s) <= Len(t) /\ SubSeq(t, 1, Len(s)) = s

Count(s, x) == Cardinality({i \in 1..Len(s) : s[i] = x})

Reads == {"get_events_by_cycle_id", "get_open_cycles_by_user"}

\* the call of p has ended without raising and still holds its connection
Ends(p) == pc[p] = "exit" /\ result[p].status # "error"

\* C17: a log_activity that ends without an error has acquired one
\* connection and made on it exactly one INSERT and then exactly one commit,
\* before the connection is released; a read that ends without an error has
\* acquired one connection and executed exactly one query; no read ever
\* commits or opens a transaction, and no call makes its calls in another
\* order or more than once.
C17_AppendProtocol ==
    \A p \in Callers :
        /\ (Ends(p) /\ op[p] = "log_activity") =>
              /\ steps[p] = <<"acquire", "INSERT", "commit">>
              /\ held[p] = 1
        /\ (Ends(p) /\ op[p] \in Reads) =>
              /\ steps[p] = <<"acquire", "SELECT">>
              /\ held[p] = 1
        /\ op[p] = "log_activity" =>
              IsPrefix(steps[p], <<"acquire", "INSERT", "commit">>)
        /\ op[p] \in Reads =>
              /\ IsPrefix(steps[p], <<"acquire", "SELECT">>)
              /\ Count(steps[p], "commit") = 0
              /\ txn[p] = {}
        /\ pc[p] = "idle" => steps[p] = <<>>

C17_Witness ==
    \E p \in Callers :
        /\ Returns(p, "log_activity")
        /\ steps[p] = <<"acquire", "INSERT", "commit">>
        /\ obs[p][1] \in RowIds(table)

----------------------------------------------------------------------------
(* C18 *)

\* C18: a call holds at most one connection and holds none while it waits
\* for one; under fair scheduling a caller waiting for a connection gets
\* past the acquisition, and every call that was started ends.
C18_NoPoolDeadlock ==
    /\ [](\A p \in Callers :
             /\ held[p] <= 1
             /\ pc[p] = "acquire" => held[p] = 0)
    /\ \A p \in Callers :
          /\ (pc[p] = "acquire") ~> (pc[p] # "acquire")
          /\ (pc[p] # "idle") ~> (pc[p] = "idle")

\* a caller waits while the other caller holds the only connection
C18_Witness ==
    \E p, q \in Callers :
        /\ pc[p] = "acquire"
        /\ free = 0
        /\ pool = 1
        /\ held[q] = 1

----------------------------------------------------------------------------
(* C19 *)

\* no two entries of the list have the same created_at
NoTies(list) ==
    \A i, j \in 1..Len(list) : list[i].created_at = list[j].created_at => i = j

\* C19: when a get_events_by_cycle_id(c) returned before another one
\* started, the first list is a prefix of the second, however log_activity
\* calls on c were interleaved with them.  Stated for second lists without
\* equal created_at values, where the order of the rows is fixed.
C19_HistoriesGrowAtEnd ==
    \A p \in Callers :
        (ReadsAgain(p) /\ NoTies(result[p].value)) =>
            IsPrefix(prior[p].value, result[p].value)

====
